---- MODULE Spec2Model ----
(***************************************************************************)
(* Model of the TriMind chat back end: the process-wide MCP client         *)
(* lifecycle (server.ts, mcp-deepseek.ts, mcp-qwen.ts) and the tool-call   *)
(* round trip of the chat route (app/api/chat/route.ts).                   *)
(*                                                                         *)
(* One step of the model is one turn of the Node.js event loop: the code   *)
(* that runs from the arrival of an I/O event (a request, a signal, the    *)
(* completion of a subprocess handshake, a provider answer, a tool result) *)
(* up to the next await on real I/O.  Awaits on already settled promises   *)
(* are part of the same step.                                              *)
(***************************************************************************)
EXTENDS Integers, Sequences, FiniteSets, TLC

\* ---------------------------------------------------------------- bounds
NumReq == 2          \* concurrent chat requests
NumShut == 2         \* shutdown operations (API calls or signals)
MaxCalls == 2        \* tool calls in one model response
MaxLen == 5          \* characters in a filename argument

\* ------------------------------------------------------------- constants
ProviderSeq == <<"deepseek", "qwen">>
Providers == {"deepseek", "qwen"}

Req == 1..NumReq
Shut == (NumReq + 1)..(NumReq + NumShut)
Tasks == Req \cup Shut

\* the value null of an MCPClient reference
NoInstance == [id |-> 0, deepseek |-> FALSE, qwen |-> FALSE]

\* ------------------------------------------------------------ tool calls
CallNames == {"echo", "read_file", "fetch_data", "no_such_tool"}
Arguments == {"a1", "a2", "{bad"}
ToolCalls == [name : CallNames, args : Arguments]

\* request bodies: the messages array of the caller
Conversations == {<<>>,
                  <<[sender |-> "user", text |-> "q1"]>>,
                  <<[sender |-> "user", text |-> "q1"],
                    [sender |-> "bot", text |-> "r1"],
                    [sender |-> "user", text |-> "q2"]>>}

VARIABLES
  mcpClient,          \* per provider module: the module-level mcpClient (0 = null)
  createCalls,        \* per provider: calls of experimental_createMCPClient so far
  live,               \* per provider: clients constructed and not closed
  constructed,        \* per provider: number of clients constructed so far
  handlerOrder,       \* provider modules whose cleanup handlers are registered, in order
  mcpClientInstance,  \* server.ts: the memoised MCPClient (NoInstance = null)
  exited,             \* process.exit was called
  env,                \* per provider: its API key is set in process.env
  customTools,        \* the object MCPClient.tools() built last, with the tool sets it was built from
  toolCall,           \* one execute of a tool object, called by a holder of the tools
  task                \* per task: the locals of the running async function

vars == <<mcpClient, createCalls, live, constructed, handlerOrder, mcpClientInstance, exited, env, customTools, toolCall, task>>

\* no execute is under way
NoToolCall == [tool |-> "none", state |-> "none"]

NoResult == [type |-> "none", content |-> "", tool_calls |-> <<>>]
NoResponse == [status |-> 0, kind |-> "none", text |-> ""]

IdleTask(t) ==
  [id |-> t, kind |-> "none", pc |-> "idle", model |-> "", messages |-> <<>>,
   slots |-> [p \in Providers |-> FALSE], idx |-> 0, newId |-> 0,
   client |-> NoInstance,
   backend |-> NoResult, result |-> NoResult, final |-> NoResult,
   started |-> {}, threw |-> {}, results |-> <<>>, order |-> <<>>,
   sent |-> <<>>, response |-> NoResponse, failCause |-> "",
   closing |-> [p \in Providers |-> 0], inflight |-> {},
   attempted |-> {}, closeFailed |-> {}, closeCalls |-> 0,
   creates |-> 0, afterShutdown |-> FALSE, outcome |-> "",
   initFailed |-> {}, lookups |-> 0, body |-> "none"]

Init ==
  /\ mcpClient = [p \in Providers |-> 0]
  /\ createCalls = [p \in Providers |-> 0]
  /\ live = [p \in Providers |-> {}]
  /\ constructed = [p \in Providers |-> 0]
  /\ handlerOrder = <<>>
  /\ mcpClientInstance = NoInstance
  /\ exited = FALSE
  /\ env = [p \in Providers |-> TRUE]
  /\ customTools = [built |-> FALSE, deepseek |-> <<>>, qwen |-> <<>>, tools |-> <<>>]
  /\ toolCall = NoToolCall
  /\ task = [t \in Tasks |-> IdleTask(t)]

\* the same start with any subset of the API keys set in the environment
InitEnv ==
  /\ mcpClient = [p \in Providers |-> 0]
  /\ createCalls = [p \in Providers |-> 0]
  /\ live = [p \in Providers |-> {}]
  /\ constructed = [p \in Providers |-> 0]
  /\ handlerOrder = <<>>
  /\ mcpClientInstance = NoInstance
  /\ exited = FALSE
  /\ env \in [Providers -> BOOLEAN]
  /\ customTools = [built |-> FALSE, deepseek |-> <<>>, qwen |-> <<>>, tools |-> <<>>]
  /\ toolCall = NoToolCall
  /\ task = [t \in Tasks |-> IdleTask(t)]

\* A turn of the event loop is computed on a context: the task's locals and
\* the module-level variables the synchronous code of the turn may write.
\* process.env is only read.
Ctx(t) == [rec |-> task[t], cc |-> createCalls, inst |-> mcpClientInstance, exit |-> exited]

Commit(t, c) ==
  /\ task' = [task EXCEPT ![t] = c.rec]
  /\ createCalls' = c.cc
  /\ mcpClientInstance' = c.inst
  /\ exited' = c.exit
  /\ env' = env
  /\ customTools' = customTools
  /\ toolCall' = toolCall

RangeOf(s) == {s[i] : i \in 1..Len(s)}

Min(S) == CHOOSE x \in S : \A y \in S : x <= y

\* variant: the catch of POST lets the error escape, no response is made
Respond500Rethrow(c, cause) ==
  [c EXCEPT !.rec.pc = "failed", !.rec.failCause = cause]

\* ------------------------------------------------------------------------
\* route.ts POST catch block: any exception thrown by a handler becomes the
\* generic 500 answer.
Respond500(c, cause) ==
  [c EXCEPT !.rec.pc = "failed",
            !.rec.failCause = cause,
            !.rec.response = [status |-> 500, kind |-> "error", text |-> "Internal server error"]]

\* the failures of a provider call: the backend answers with an error, or the
\* transport to it breaks
FailureKinds == {"ProviderError", "NetworkError"}

\* variant: the handler repeats the provider call that failed
OnGenerateErrorRetry(c, kind) ==
  [c EXCEPT !.rec.failCause = kind,
            !.rec.sent = Append(@, @[Len(@)])]

\* executeThroughMCP and the chat tool's execute wrap any error in a new
\* Error, the handler's catch block rethrows it, and POST answers it
OnGenerateError(c, kind) == Respond500(c, kind)

\* The messages of the caller in provider format (route.ts formattedMessages)
FormatMessage(m) ==
  [role |-> IF m.sender = "user" THEN "user" ELSE "assistant",
   name |-> "",
   content |-> <<"text", m.text, "">>]

SystemMessage == [role |-> "system", name |-> "", content |-> <<"text", "tools preamble", "">>]

MessagesWithSystem(msgs) == <<SystemMessage>> \o [i \in 1..Len(msgs) |-> FormatMessage(msgs[i])]

\* a tool descriptor, known by the source that defines it
Entry(name, origin) == [name |-> name, origin |-> origin]

\* the properties the object literal of MCPClient.tools names itself, in
\* source order.  The key of the Gemini tool is geminiThinkingTool.name, a
\* property that tool object does not have: the key is the string "undefined".
StaticTools ==
  <<Entry("echo", "static"), Entry("read_file", "static"), Entry("write_file", "static"),
    Entry("fetch_data", "static"), Entry("undefined", "static")>>

\* getDeepSeekTools / getQwenTools: the two completion tools, or nothing for
\* a null client
getDeepSeekTools(client) ==
  IF client
    THEN <<Entry("deepseek_chat_completion", "deepseek"), Entry("deepseek_text_completion", "deepseek")>>
    ELSE <<>>

getQwenTools(client) ==
  IF client
    THEN <<Entry("qwen_chat_completion", "qwen"), Entry("qwen_text_completion", "qwen")>>
    ELSE <<>>

\* one property of an object literal: a key that is present keeps its place
\* and takes the new value, a new key is added at the end
Put(obj, e) ==
  IF \E i \in 1..Len(obj) : obj[i].name = e.name
    THEN [i \in 1..Len(obj) |-> IF obj[i].name = e.name THEN e ELSE obj[i]]
    ELSE Append(obj, e)

\* ...src inside an object literal
SpreadInto(obj, src) ==
  LET RECURSIVE F(_, _)
      F(o, r) == IF r = <<>> THEN o ELSE F(Put(o, Head(r)), Tail(r))
  IN F(obj, src)

\* the object customTools: the static tools, then ...deepseekTools, then
\* ...qwenTools
CustomTools(deepseekTools, qwenTools) ==
  SpreadInto(SpreadInto(StaticTools, deepseekTools), qwenTools)

\* MCPClient.tools: the keys of customTools for the two slots of the client
Registry(client) ==
  {e.name : e \in RangeOf(CustomTools(getDeepSeekTools(client.deepseek),
                                       getQwenTools(client.qwen)))}

\* The tool literals of initializeMCP declare description, parameters and
\* execute; the registry keys whose tool object also has a `name` property:
Named == {}

\* toolDefinitions: the four tools the handler reads from allTools by key,
\* `.filter(Boolean)` dropping the absent ones
ToolDefinitions(allTools) ==
  LET keys == <<"read_file", "write_file", "fetch_data", "echo">>
      present == SelectSeq(keys, LAMBDA k : \E i \in 1..Len(allTools) : allTools[i].name = k)
  IN [j \in 1..Len(present) |->
        allTools[CHOOSE i \in 1..Len(allTools) : allTools[i].name = present[j]]]

\* toolParams: `'name' in tool ? tool.name : 'unknown_tool'`
ToolParams(toolDefinitions) ==
  [j \in 1..Len(toolDefinitions) |->
     [name |-> IF toolDefinitions[j].name \in Named
                 THEN toolDefinitions[j].name ELSE "unknown_tool"]]

\* The chat completion tool's execute: the call is recorded, then
\* executeThroughMCP runs initializeMCPClient, which constructs a new
\* transport client when the module's mcpClient is null.
\* The parameters the adapter's execute sends through executeThroughMCP: the
\* model, the messages and sampling parameters with defaults.  No other field
\* of params is copied into the request.
RequestParams(params) ==
  [model |-> params.provider, messages |-> params.messages]

Generate(c, mcp, msgs, withTools) ==
  LET p == c.rec.model
      params == [provider |-> p, messages |-> msgs, tools |-> withTools,
                 tool_choice |-> IF withTools THEN "auto" ELSE "unset"]
      allTools == CustomTools(getDeepSeekTools(c.rec.client.deepseek),
                              getQwenTools(c.rec.client.qwen))
      call == [provider |-> params.provider, messages |-> params.messages,
               tools |-> params.tools, tool_choice |-> params.tool_choice,
               toolParams |-> IF withTools
                                THEN ToolParams(ToolDefinitions(allTools))
                                ELSE <<>>,
               request |-> RequestParams(params)]
      c1 == [c EXCEPT !.rec.sent = Append(@, call)]
  IN IF mcp[p] # 0
       THEN [c1 EXCEPT !.rec.pc = "await"]
       ELSE [c1 EXCEPT !.rec.pc = "genCreate",
                       !.rec.newId = c.cc[p] + 1,
                       !.rec.creates = @ + 1,
                       !.cc[p] = @ + 1]

\* ------------------------------------------------------------------------
\* The answer of a provider backend, as the adapter's execute returns it to
\* the handler.  mcp-deepseek.ts returns the MCP response itself (a string or
\* an object with content and tool_calls); mcp-qwen.ts returns
\* choices[0].message.content, a string or null.  rec.backend keeps what the
\* backend answered to the initial call, before the adapter converted it.
NullContent == "<null>"

Batches(maxc) == UNION {[1..n -> ToolCalls] : n \in 0..maxc}

Texts(n) == {"", IF n = 1 THEN "text1" ELSE "text2"}

DeepSeekResults(n, maxc) ==
  [type : {"string"}, content : Texts(n), tool_calls : {<<>>}]
    \cup [type : {"object"}, content : Texts(n) \cup {NullContent}, tool_calls : {<<>>}]
    \cup [type : {"object"}, content : {NullContent}, tool_calls : Batches(maxc) \ {<<>>}]

\* choices[0].message of the Qwen backend's answer, as the transport hands it
\* to the adapter: text, or null content with the tool calls the model asks for
QwenMessages(n, maxc) ==
  [type : {"object"}, content : Texts(n) \cup {NullContent}, tool_calls : {<<>>}]
    \cup [type : {"object"}, content : {NullContent}, tool_calls : Batches(maxc) \ {<<>>}]

Backend(p, n, maxc) == IF p = "deepseek" THEN DeepSeekResults(n, maxc) ELSE QwenMessages(n, maxc)

\* mcp-deepseek.ts: `return response`
DeepSeekExecute(response) == response

\* mcp-qwen.ts: `return response.choices[0].message.content`
QwenExecute(message) ==
  [type |-> IF message.content = NullContent THEN "null" ELSE "string",
   content |-> message.content,
   tool_calls |-> <<>>]

Execute(p, response) ==
  IF p = "deepseek" THEN DeepSeekExecute(response) ELSE QwenExecute(response)

Results(p, n, maxc) == {Execute(p, response) : response \in Backend(p, n, maxc)}

\* JSON.parse of a tool call's argument string
Parses(args) == args # "{bad"

\* responseText and the 200 answer
Finish(c, finalResponse) ==
  IF finalResponse.type = "null"
    THEN Respond500([c EXCEPT !.rec.final = finalResponse], "TypeError")
    ELSE LET reply == IF finalResponse.type = "string"
                        THEN [status |-> 200, kind |-> "text", text |-> finalResponse.content]
                      ELSE IF finalResponse.content \notin {"", NullContent}
                        THEN [status |-> 200, kind |-> "text", text |-> finalResponse.content]
                      ELSE [status |-> 200, kind |-> "json", text |-> finalResponse.content]
         IN [c EXCEPT !.rec.final = finalResponse, !.rec.response = reply, !.rec.pc = "done"]

\* variant: the results are collected in an array of the module, which all
\* requests share
ToolResultMessagesShared(rec) ==
  LET RECURSIVE Others(_)
      Others(u) == IF u > NumReq THEN <<>>
                   ELSE (IF u = rec.id THEN <<>> ELSE task[u].results) \o Others(u + 1)
      all == rec.results \o Others(1)
  IN [i \in 1..Len(all) |->
        [role |-> "function",
         name |-> all[i].toolName,
         content |-> <<all[i].kind, all[i].toolName, all[i].args>>]]

\* variant: only the successful results become messages
ToolResultMessagesOnlyOk(rec) ==
  LET ok == SelectSeq(rec.results, LAMBDA r : r.kind = "out")
  IN [i \in 1..Len(ok) |->
        [role |-> "function",
         name |-> ok[i].toolName,
         content |-> <<ok[i].kind, ok[i].toolName, ok[i].args>>]]

\* variant: the messages are built in the order the executions settled
ToolResultMessagesByCompletion(rec) ==
  [k \in 1..Len(rec.order) |->
     [role |-> "function",
      name |-> rec.results[rec.order[k]].toolName,
      content |-> <<rec.results[rec.order[k]].kind, rec.results[rec.order[k]].toolName,
                    rec.results[rec.order[k]].args>>]]

\* toolResults.map: one function-role message per entry of the result array
ToolResultMessages(rec) ==
  [i \in 1..Len(rec.results) |->
     [role |-> "function",
      name |-> rec.results[i].toolName,
      content |-> <<rec.results[i].kind, rec.results[i].toolName, rec.results[i].args>>]]

\* variant: the tool messages are put in front of the conversation
FanInToolsFirst(c, mcp) ==
  Generate(c, mcp, ToolResultMessages(c.rec) \o MessagesWithSystem(c.rec.messages), FALSE)

\* variant: the follow-up call carries the tool definitions again
FanInWithTools(c, mcp) ==
  Generate(c, mcp, MessagesWithSystem(c.rec.messages) \o ToolResultMessages(c.rec), TRUE)

\* after Promise.all resolved: the follow-up call, without tool definitions
FanIn(c, mcp) ==
  Generate(c, mcp, MessagesWithSystem(c.rec.messages) \o ToolResultMessages(c.rec), FALSE)

\* variant: the lookup failure is thrown outside the try block
LookupThrows(client, call) ==
  IF call.name \in Registry(client)
    THEN [state |-> "pending", toolName |-> call.name, kind |-> "", args |-> call.args]
    ELSE [state |-> "rejected", toolName |-> call.name, kind |-> "", args |-> call.args]

\* the try block of one map callback up to its await: lookup, then execute
Lookup(client, call) ==
  IF call.name \in Registry(client)
    THEN [state |-> "pending", toolName |-> call.name, kind |-> "", args |-> call.args]
    ELSE [state |-> "done", toolName |-> call.name, kind |-> "error", args |-> call.args]

\* one map callback up to its first await: JSON.parse outside the try block,
\* then the try block
CallStart(client, call) ==
  IF ~Parses(call.args)
    THEN [state |-> "rejected", toolName |-> call.name, kind |-> "", args |-> call.args]
    ELSE Lookup(client, call)

\* variant: the handler goes on as soon as one execution has settled
\* variant: the handler goes on only when every entry is a tool output
BatchSettledOnlyOk(results) ==
  \A k \in 1..Len(results) : results[k].state = "done" /\ results[k].kind = "out"

BatchSettledAny(results) ==
  \E k \in 1..Len(results) : results[k].state = "done"

\* await Promise.all(...): the handler goes on when every callback of the
\* batch has returned its entry
BatchSettled(results) ==
  \A k \in 1..Len(results) : results[k].state = "done"

\* result.tool_calls.map(async ...) under Promise.all
StartBatch(c, mcp, result) ==
  LET calls == result.tool_calls
      res == [i \in 1..Len(calls) |-> CallStart(c.rec.client, calls[i])]
      done == {i \in 1..Len(calls) : res[i].state = "done"}
      SeqOf(S) == LET RECURSIVE F(_)
                      F(T) == IF T = {} THEN <<>> ELSE <<Min(T)>> \o F(T \ {Min(T)})
                  IN F(S)
      c1 == [c EXCEPT !.rec.results = res,
                      !.rec.started = {i \in 1..Len(calls) : res[i].state = "pending"},
                      !.rec.order = SeqOf(done)]
  IN IF \E i \in 1..Len(calls) : res[i].state = "rejected"
       THEN Respond500(c1, "ToolCallRejected")
     ELSE IF BatchSettled(res)
       THEN FanIn(c1, mcp)
     ELSE [c1 EXCEPT !.rec.pc = "tools"]

\* the handler after the first provider call returned
AfterResult(c, mcp, result) ==
  LET c1 == [c EXCEPT !.rec.result = result]
  IN IF result.type = "null"
       THEN Respond500(c1, "TypeError")
     ELSE IF result.type = "object" /\ Len(result.tool_calls) > 0
       THEN StartBatch(c1, mcp, result)
     ELSE Finish(c1, result)

\* variant: no catch block, the executor's exception rejects the promise
SettleNoCatch(entry, ok) ==
  IF ok THEN [entry EXCEPT !.state = "done", !.kind = "out"]
        ELSE [entry EXCEPT !.state = "rejected"]

\* the catch block around one tool execution: the settled entry of the array
Settle(entry, ok) ==
  [entry EXCEPT !.state = "done", !.kind = IF ok THEN "out" ELSE "error"]

\* can the executor of a tool throw (echo returns its argument)
ExecOutcomes(name) == IF name = "echo" THEN {TRUE} ELSE BOOLEAN

\* handleQwenDirectRequest up to its fetch: without QWEN_API_KEY the handler
\* answers at once, the message in the reply field.  (The request bodies of
\* the model pass the text checks of lines 80-108.)
QwenDirectStart(c) ==
  IF ~env["qwen"]
    THEN [c EXCEPT !.rec.pc = "done",
                   !.rec.failCause = "NoApiKey",
                   !.rec.response = [status |-> 500, kind |-> "errtext",
                                     text |-> "API key not configured"]]
    ELSE [c EXCEPT !.rec.pc = "awaitDirect"]
\* the value of a field the request body does not have
Undefined == "<undefined>"

\* String.prototype.toLowerCase on the model selectors the callers send
ToLowerCase(model) == IF model = "DeepSeek" THEN "deepseek" ELSE model

\* handleClaudeDirectRequest: the messages are formatted and the fetch to the
\* Anthropic API is awaited
ClaudeDirectStart(c) == [c EXCEPT !.rec.pc = "awaitClaude"]

\* handleMCPToolRequest: the tool is looked up under toolName in
\* client.tools(); a missing tool throws inside the handler's try block, whose
\* catch answers 500 with the error text as reply
handleMCPToolRequest(c, toolName) ==
  IF toolName \notin Registry(c.rec.client)
    THEN [c EXCEPT !.rec.pc = "failed",
                   !.rec.lookups = @ + 1,
                   !.rec.failCause = "ToolUnavailable",
                   !.rec.response = [status |-> 500, kind |-> "errtext",
                                     text |-> "Error executing tool"]]
    ELSE [c EXCEPT !.rec.pc = "awaitTool", !.rec.lookups = @ + 1]

\* variant: the slot is tested after the tools of the client were fetched
HandlerStartLate(c, mcp) ==
  IF c.rec.model = "qwen_direct"
    THEN QwenDirectStart(c)
  ELSE IF ~c.rec.client[c.rec.model]
    THEN Respond500([c EXCEPT !.rec.lookups = @ + 1], "ProviderUnavailable")
  ELSE Generate([c EXCEPT !.rec.lookups = @ + 1], mcp, MessagesWithSystem(c.rec.messages), TRUE)

\* the switch of POST, then handleDeepSeekRequest / handleQwenRequest up to
\* the first provider call: the slot test, client.tools(), the chat tool's
\* execute
HandlerStart(c, mcp) ==
  IF c.rec.model = Undefined
    THEN Respond500(c, "TypeError")
    ELSE LET c1 == [c EXCEPT !.rec.model = ToLowerCase(@)]
             model == c1.rec.model
         IN IF model = "qwen_direct"
              THEN QwenDirectStart(c1)
            ELSE IF model = "gemini_thinking"
              THEN handleMCPToolRequest(c1, "gemini_thinking")
            ELSE IF model \notin Providers
              THEN ClaudeDirectStart(c1)
            ELSE IF ~c1.rec.client[model]
              THEN Respond500(c1, "ProviderUnavailable")
            ELSE Generate([c1 EXCEPT !.rec.lookups = @ + 1], mcp,
                          MessagesWithSystem(c1.rec.messages), TRUE)

\* ------------------------------------------------------------------------
\* closeMCPClient returns (and handleShutdown then ends the process)
CloseReturn(c) ==
  IF c.rec.kind = "handleShutdown"
    THEN [c EXCEPT !.rec.pc = "exited", !.rec.outcome = "returned", !.exit = TRUE]
    ELSE [c EXCEPT !.rec.pc = "returned", !.rec.outcome = "returned"]

\* closeMCPClient from the i-th provider on: closeDeepSeekClient, then
\* closeQwenClient, each only when the slot of the passed client is set;
\* each returns at once when its module holds no client.
RunClose(c, mcp, i) ==
  LET n == Len(ProviderSeq)
      S == {k \in i..n : c.rec.client[ProviderSeq[k]] /\ mcp[ProviderSeq[k]] # 0}
      j == IF S = {} THEN n + 1 ELSE Min(S)
      called == {ProviderSeq[k] : k \in {k \in i..n : k <= j /\ c.rec.client[ProviderSeq[k]]}}
      c1 == [c EXCEPT !.rec.attempted = @ \cup called]
  IN IF S = {}
       THEN CloseReturn(c1)
       ELSE [c1 EXCEPT !.rec.pc = "closing",
                       !.rec.idx = j,
                       !.rec.closing[ProviderSeq[j]] = mcp[ProviderSeq[j]],
                       !.rec.inflight = {ProviderSeq[j]},
                       !.rec.closeCalls = @ + 1]

\* variant: the close error is rethrown to closeMCPClient, whose catch block
\* logs it and returns
CloseFailureRethrow(c, mcp) ==
  CloseReturn([c EXCEPT !.rec.closeFailed = @ \cup {ProviderSeq[c.rec.idx]}])

\* closeQwenClient / closeDeepSeekClient catch block: the error is logged and
\* swallowed, the reference is kept, closeMCPClient goes on
CloseFailure(c, mcp) ==
  RunClose([c EXCEPT !.rec.closeFailed = @ \cup {ProviderSeq[c.rec.idx]}], mcp, c.rec.idx + 1)

\* MCPClient.close: Promise.all over both close functions, started together
RunCloseAll(c, mcp) ==
  LET open == {p \in Providers : mcp[p] # 0}
      c1 == [c EXCEPT !.rec.attempted = Providers]
  IN IF open = {}
       THEN CloseReturn(c1)
       ELSE [c1 EXCEPT !.rec.pc = "closingAll",
                       !.rec.closing = [p \in Providers |-> mcp[p]],
                       !.rec.inflight = open,
                       !.rec.closeCalls = @ + Cardinality(open)]

\* ------------------------------------------------------------------------
\* initializeMCP returns the MCPClient object built from the two slots
InitReturn(c, mcp) ==
  LET inst == [id |-> c.rec.id, deepseek |-> c.rec.slots["deepseek"], qwen |-> c.rec.slots["qwen"]]
      c1 == [c EXCEPT !.rec.client = inst]
  IN IF c.rec.kind = "handleShutdown"
       THEN RunClose(c1, mcp, 1)
       ELSE HandlerStart([c1 EXCEPT !.inst = inst], mcp)

\* initializeMCP from the i-th provider on: initializeDeepSeekMCP, then
\* initializeQwenMCP; each runs the module's initializeMCPClient, which
\* returns the held client or constructs one
RunInit(c, mcp, i) ==
  LET n == Len(ProviderSeq)
      S == {k \in i..n : mcp[ProviderSeq[k]] = 0}
      j == IF S = {} THEN n + 1 ELSE Min(S)
      c1 == [c EXCEPT !.rec.slots = [p \in Providers |->
                         IF \E k \in i..n : k < j /\ ProviderSeq[k] = p THEN TRUE ELSE @[p]]]
  IN IF S = {}
       THEN InitReturn(c1, mcp)
       ELSE [c1 EXCEPT !.rec.pc = "creating",
                       !.rec.idx = j,
                       !.rec.newId = c.cc[ProviderSeq[j]] + 1,
                       !.rec.creates = @ + 1,
                       !.cc[ProviderSeq[j]] = @ + 1]

\* variant: the construction error leaves initializeMCP as an exception
InitFailureRethrow(c, mcp) ==
  Respond500([c EXCEPT !.rec.initFailed = @ \cup {ProviderSeq[c.rec.idx]}], "InitThrew")

\* initializeDeepSeekMCP / initializeQwenMCP catch block: the error of
\* initializeMCPClient is logged, null is returned, and initializeMCP goes on
\* with the next provider
InitFailure(c, mcp) ==
  RunInit([c EXCEPT !.rec.slots[ProviderSeq[c.rec.idx]] = FALSE,
                    !.rec.initFailed = @ \cup {ProviderSeq[c.rec.idx]}],
          mcp, c.rec.idx + 1)

\* handleShutdown up to its first await: initializeMCP enters
\* initializeDeepSeekMCP, whose initializeMCPClient starts a construction
\* when the DeepSeek module holds no client
FirstSegment(c, mcp) ==
  IF mcp[ProviderSeq[1]] = 0 THEN RunInit(c, mcp, 1) ELSE c

\* getMCPClient: the memoised instance when set, else initializeMCP
getMCPClient(c, mcp) ==
  IF c.inst.id # 0
    THEN HandlerStart([c EXCEPT !.rec.client = c.inst], mcp)
    ELSE RunInit(c, mcp, 1)

\* ========================================================================
\* Actions
\* ========================================================================

\* variant: only a missing messages field is rejected
PostBodyLoose(t, body) ==
  /\ ~exited
  /\ task[t].pc = "idle"
  /\ LET c == [Ctx(t) EXCEPT !.rec.kind = "POST", !.rec.model = body.model,
                             !.rec.messages = body.messages,
                             !.rec.body = IF body.json THEN body.kind ELSE "malformed"]
     IN IF ~body.json
          THEN Commit(t, Respond500(c, "SyntaxError"))
        ELSE IF body.kind = "missing"
          THEN Commit(t, [c EXCEPT !.rec.pc = "done",
                                   !.rec.response = [status |-> 400, kind |-> "error",
                                                     text |-> "Invalid messages format"]])
        ELSE Commit(t, getMCPClient(c, mcpClient))
  /\ UNCHANGED <<mcpClient, live, constructed, handlerOrder>>

\* route.ts POST: a request arrives
PostBody(t, body) ==
  /\ ~exited
  /\ task[t].pc = "idle"
  /\ LET c == [Ctx(t) EXCEPT !.rec.kind = "POST", !.rec.model = body.model,
                             !.rec.messages = body.messages,
                             !.rec.body = IF body.json THEN body.kind ELSE "malformed"]
     IN IF ~body.json
          THEN Commit(t, Respond500(c, "SyntaxError"))
        ELSE IF body.kind # "array" \/ Len(body.messages) = 0
          THEN Commit(t, [c EXCEPT !.rec.pc = "done",
                                   !.rec.response = [status |-> 400, kind |-> "error",
                                                     text |-> "Invalid messages format"]])
        ELSE Commit(t, getMCPClient(c, mcpClient))
  /\ UNCHANGED <<mcpClient, live, constructed, handlerOrder>>

\* a request whose body is JSON with an array under messages
Post(t, msgs, model) ==
  PostBody(t, [json |-> TRUE, kind |-> "array", messages |-> msgs, model |-> model])

\* request bodies: text that is not JSON; JSON without a messages field or
\* with one that is not an array; JSON with an array of messages.  The model
\* selector may be missing, of another case, or none of the known ones.
Selectors == {"deepseek", "DeepSeek", "qwen", "qwen_direct", "claude",
              "gemini_thinking", "gpt", Undefined}

Bodies ==
  {[json |-> FALSE, kind |-> "missing", messages |-> <<>>, model |-> Undefined]}
    \cup [json : {TRUE}, kind : {"missing", "notArray"}, messages : {<<>>}, model : Selectors]
    \cup [json : {TRUE}, kind : {"array"}, messages : Conversations, model : Selectors]

\* the fetch of handleClaudeDirectRequest settles: a reply, or an error the
\* handler rethrows into the catch of POST
ClaudeAnswer(t, outcome) ==
  /\ ~exited
  /\ task[t].pc = "awaitClaude"
  /\ IF outcome = "ok"
       THEN Commit(t, [Ctx(t) EXCEPT !.rec.pc = "done",
                                     !.rec.response = [status |-> 200, kind |-> "text",
                                                       text |-> "text1"]])
       ELSE Commit(t, Respond500(Ctx(t), IF outcome = "throws" THEN "NetworkError"
                                                              ELSE "ProviderError"))
  /\ UNCHANGED <<mcpClient, live, constructed, handlerOrder>>

\* initializeMCPClient after experimental_createMCPClient settled
Created(p, id) ==
  /\ mcpClient' = [mcpClient EXCEPT ![p] = id]
  /\ live' = [live EXCEPT ![p] = @ \cup {id}]
  /\ constructed' = [constructed EXCEPT ![p] = @ + 1]
  /\ handlerOrder' = IF p \in RangeOf(handlerOrder) THEN handlerOrder ELSE Append(handlerOrder, p)

\* the construction started by initializeMCP settles
CreateDone(t, ok) ==
  /\ ~exited
  /\ task[t].pc = "creating"
  /\ LET p == ProviderSeq[task[t].idx]
         c == [Ctx(t) EXCEPT !.rec.slots[p] = TRUE]
     IN IF ok
          THEN /\ Created(p, task[t].newId)
               /\ Commit(t, RunInit(c, [mcpClient EXCEPT ![p] = task[t].newId], task[t].idx + 1))
          ELSE /\ UNCHANGED <<mcpClient, live, constructed, handlerOrder>>
               /\ Commit(t, InitFailure(Ctx(t), mcpClient))

\* the construction started by executeThroughMCP settles
GenCreateDone(t, ok) ==
  /\ ~exited
  /\ task[t].pc = "genCreate"
  /\ IF ok
       THEN /\ Created(task[t].model, task[t].newId)
            /\ Commit(t, [Ctx(t) EXCEPT !.rec.pc = "await"])
       ELSE /\ UNCHANGED <<mcpClient, live, constructed, handlerOrder>>
            /\ Commit(t, OnGenerateError(Ctx(t), "ProviderError"))

\* the first provider call returns
Answer1(t, maxc) ==
  /\ ~exited
  /\ task[t].pc = "await"
  /\ Len(task[t].sent) = 1
  /\ \E response \in Backend(task[t].model, 1, maxc) :
       Commit(t, AfterResult([Ctx(t) EXCEPT !.rec.backend = response], mcpClient,
                             Execute(task[t].model, response)))
  /\ UNCHANGED <<mcpClient, live, constructed, handlerOrder>>

\* the follow-up provider call returns
Answer2(t) ==
  /\ ~exited
  /\ task[t].pc = "await"
  /\ Len(task[t].sent) = 2
  /\ \E result \in Results(task[t].model, 2, 1) :
       Commit(t, Finish(Ctx(t), result))
  /\ UNCHANGED <<mcpClient, live, constructed, handlerOrder>>

\* a provider call throws (transport, backend or missing choices)
GenerateFails(t, kind) ==
  /\ ~exited
  /\ task[t].pc = "await"
  /\ Commit(t, OnGenerateError(Ctx(t), kind))
  /\ UNCHANGED <<mcpClient, live, constructed, handlerOrder>>

\* the backend never answers a provider call: neither the handlers nor
\* executeThroughMCP arm a timer for the call, so no event is left that
\* would resume the handler
NeverReturns(t) ==
  /\ ~exited
  /\ task[t].pc = "await"
  /\ Commit(t, [Ctx(t) EXCEPT !.rec.pc = "hung"])
  /\ UNCHANGED <<mcpClient, live, constructed, handlerOrder>>

\* the executors that wait for an answer from outside the process:
\* fetch_data awaits axios, which is given no timeout; echo and the file
\* tools return without waiting
CanHang(name) == name = "fetch_data"

\* the request of one tool execution is never answered: the map callback
\* awaits execute without a timer, so its promise never settles
ToolNeverCompletes(t, i) ==
  /\ ~exited
  /\ task[t].pc = "tools"
  /\ i \in 1..Len(task[t].results)
  /\ task[t].results[i].state = "pending"
  /\ CanHang(task[t].results[i].toolName)
  /\ Commit(t, [Ctx(t) EXCEPT !.rec.results[i].state = "hung"])
  /\ UNCHANGED <<mcpClient, live, constructed, handlerOrder>>

\* one tool execution of the batch settles
ToolComplete(t, i, ok) ==
  /\ ~exited
  /\ task[t].pc = "tools"
  /\ i \in 1..Len(task[t].results)
  /\ task[t].results[i].state = "pending"
  /\ ok \in ExecOutcomes(task[t].results[i].toolName)
  /\ LET c == [Ctx(t) EXCEPT !.rec.results[i] = Settle(@, ok),
                             !.rec.order = Append(@, i),
                             !.rec.threw = IF ok THEN @ ELSE @ \cup {i}]
     IN IF c.rec.results[i].state = "rejected"
          THEN Commit(t, Respond500(c, "ToolCallRejected"))
        ELSE IF BatchSettled(c.rec.results)
          THEN Commit(t, FanIn(c, mcpClient))
        ELSE Commit(t, c)
  /\ UNCHANGED <<mcpClient, live, constructed, handlerOrder>>

\* what the fetch of handleQwenDirectRequest can bring
DirectOutcomes == {"ok", "httpError", "noContent", "throws"}

\* handleQwenDirectRequest after its fetch: the content of the first choice
\* is the reply; an HTTP error status, a body without content and a rejected
\* fetch are answered with their message in the reply field
DirectAnswer(t, outcome) ==
  /\ ~exited
  /\ task[t].pc = "awaitDirect"
  /\ LET reply == CASE outcome = "ok" ->
                        [status |-> 200, kind |-> "text", text |-> "text1"]
                     [] outcome = "httpError" ->
                        [status |-> 401, kind |-> "errtext", text |-> "Qwen API error"]
                     [] OTHER ->
                        [status |-> 500, kind |-> "errtext", text |-> "Error with Qwen Direct API"]
         cause == CASE outcome = "ok" -> ""
                     [] outcome = "throws" -> "NetworkError"
                     [] OTHER -> "ProviderError"
     IN Commit(t, [Ctx(t) EXCEPT !.rec.pc = "done", !.rec.failCause = cause,
                                 !.rec.response = reply])
  /\ UNCHANGED <<mcpClient, live, constructed, handlerOrder>>

\* tool names for the tool sets on which the merge of MCPClient.tools is
\* examined
NamePool == <<"echo", "fetch_data", "chat_completion", "text_completion">>

\* the tool sets over the pool a provider module can hand to the merge
ToolSets(origin) ==
  {[i \in 1..Len(q) |-> Entry(q[i], origin)] :
     q \in {SelectSeq(NamePool, LAMBDA n : n \in S) : S \in SUBSET RangeOf(NamePool)}}

\* MCPClient.tools() with the tool sets of the two provider modules
Tools(deepseekTools, qwenTools) ==
  /\ customTools' = [built |-> TRUE, deepseek |-> deepseekTools, qwen |-> qwenTools,
                     tools |-> CustomTools(deepseekTools, qwenTools)]
  /\ UNCHANGED <<mcpClient, createCalls, live, constructed, handlerOrder,
                 mcpClientInstance, exited, env, toolCall, task>>

\* an earlier shutdown operation has closed a client and returned
EarlierShutdown == \E u \in Shut : task[u].outcome = "returned" /\ task[u].closeCalls > 0

\* a caller that holds the MCPClient calls closeMCPClient(client) or client.close()
ApiShutdown(t, kind) ==
  /\ ~exited
  /\ task[t].pc = "idle"
  /\ mcpClientInstance.id # 0
  /\ LET c == [Ctx(t) EXCEPT !.rec.kind = kind,
                             !.rec.client = mcpClientInstance,
                             !.rec.afterShutdown = EarlierShutdown]
     IN IF kind = "close"
          THEN Commit(t, RunCloseAll(c, mcpClient))
          ELSE Commit(t, RunClose(c, mcpClient, 1))
  /\ UNCHANGED <<mcpClient, live, constructed, handlerOrder>>

\* mcpClient.close() settles inside closeDeepSeekClient / closeQwenClient
CloseDone(t, p, ok) ==
  /\ ~exited
  /\ task[t].pc \in {"closing", "closingAll"}
  /\ p \in task[t].inflight
  /\ LET mcp == IF ok THEN [mcpClient EXCEPT ![p] = 0] ELSE mcpClient
         c == [Ctx(t) EXCEPT !.rec.inflight = @ \ {p}]
     IN /\ mcpClient' = mcp
        /\ live' = IF ok THEN [live EXCEPT ![p] = @ \ {task[t].closing[p]}] ELSE live
        /\ IF task[t].pc = "closingAll"
             THEN LET c1 == IF ok THEN c ELSE [c EXCEPT !.rec.closeFailed = @ \cup {p}]
                  IN Commit(t, IF c1.rec.inflight = {} THEN CloseReturn(c1) ELSE c1)
             ELSE Commit(t, IF ok THEN RunClose(c, mcp, task[t].idx + 1) ELSE CloseFailure(c, mcp))
  /\ UNCHANGED <<constructed, handlerOrder>>

\* SIGINT / SIGTERM: the listeners run in registration order.  First
\* handleShutdown (server.ts) up to its first await, then the handler of each
\* provider module that has constructed a client: the first one that still
\* holds a client closes it and ends the process.
Signal(t) ==
  /\ ~exited
  /\ task[t].pc = "idle"
  /\ LET c == [Ctx(t) EXCEPT !.rec.kind = "handleShutdown",
                             !.rec.afterShutdown = EarlierShutdown]
         holders == {k \in 1..Len(handlerOrder) : mcpClient[handlerOrder[k]] # 0}
     IN IF holders = {}
          THEN /\ Commit(t, RunInit(c, mcpClient, 1))
               /\ UNCHANGED <<mcpClient, live>>
          ELSE LET p == handlerOrder[Min(holders)]
                   c1 == FirstSegment(c, mcpClient)
               IN /\ Commit(t, [c1 EXCEPT !.rec.pc = "exited", !.exit = TRUE])
                  /\ mcpClient' = [mcpClient EXCEPT ![p] = 0]
                  /\ live' = [live EXCEPT ![p] = @ \ {mcpClient[p]}]
  /\ UNCHANGED <<constructed, handlerOrder>>

Models == {"deepseek", "qwen"}

Terminal(t) == task[t].pc \in {"done", "failed", "returned", "exited"}

\* a task starts only when the tasks before it have started (the tasks of one
\* kind are interchangeable)
InOrder(t, S) == \A u \in S : u < t => task[u].pc # "idle"

\* a task starts only when the tasks before it have finished
OneAtATime(t, S) == \A u \in S : u < t => Terminal(u)

\* the request body of the lifecycle specifications
LifeConversations == {<<[sender |-> "user", text |-> "q1"]>>}

\* Lifecycle: dispatches one after the other, shutdown operations one after
\* the other, dispatches and shutdowns interleaved
Next ==
  \/ \E t \in Req, msgs \in LifeConversations, model \in Models :
       OneAtATime(t, Req) /\ Post(t, msgs, model)
  \/ \E t \in Tasks, ok \in BOOLEAN : CreateDone(t, ok)
  \/ \E t \in Req, ok \in BOOLEAN : GenCreateDone(t, ok)
  \/ \E t \in Req : Answer1(t, 0)
  \/ \E t \in Req, kind \in FailureKinds : GenerateFails(t, kind)
  \/ \E t \in Shut, kind \in {"closeMCPClient", "close"} :
       OneAtATime(t, Shut) /\ ApiShutdown(t, kind)
  \/ \E t \in Shut, p \in Providers, ok \in BOOLEAN : CloseDone(t, p, ok)
  \/ \E t \in Shut : OneAtATime(t, Shut) /\ Signal(t)

Spec == Init /\ [][Next]_vars

\* Concurrent first dispatches, no shutdown
NextInit ==
  \/ \E t \in Req, msgs \in LifeConversations, model \in Models :
       InOrder(t, Req) /\ Post(t, msgs, model)
  \/ \E t \in Req, ok \in BOOLEAN : CreateDone(t, ok)
  \/ \E t \in Req : Answer1(t, 0)
  \/ \E t \in Req, kind \in FailureKinds : GenerateFails(t, kind)

SpecInit == Init /\ [][NextInit]_vars

\* One request with full tool batches, no shutdown
NextOrch ==
  \/ \E msgs \in Conversations, model \in Models : Post(1, msgs, model)
  \/ \E ok \in BOOLEAN : CreateDone(1, ok)
  \/ Answer1(1, MaxCalls)
  \/ Answer2(1)
  \/ \E kind \in FailureKinds : GenerateFails(1, kind)
  \/ \E i \in 1..MaxCalls, ok \in BOOLEAN : ToolComplete(1, i, ok)

SpecOrch == Init /\ [][NextOrch]_vars

\* One request whose provider may stay silent; every event that can still
\* happen does happen (the event loop runs every callback that is ready)
NextLive ==
  \/ \E msgs \in Conversations, model \in Models : Post(1, msgs, model)
  \/ \E ok \in BOOLEAN : CreateDone(1, ok)
  \/ Answer1(1, 2)
  \/ Answer2(1)
  \/ \E kind \in FailureKinds : GenerateFails(1, kind)
  \/ \E i \in 1..2, ok \in BOOLEAN : ToolComplete(1, i, ok)
  \/ NeverReturns(1)
  \/ \E i \in 1..2 : ToolNeverCompletes(1, i)

SpecLive == Init /\ [][NextLive]_vars /\ WF_vars(NextLive)

\* one request whose provider calls, client constructions and tool executors
\* all settle: every await of the run is eventually resumed
NextTerm ==
  \/ \E msgs \in Conversations, model \in Models : Post(1, msgs, model)
  \/ \E ok \in BOOLEAN : CreateDone(1, ok)
  \/ Answer1(1, 2)
  \/ Answer2(1)
  \/ \E kind \in FailureKinds : GenerateFails(1, kind)
  \/ \E i \in 1..2, ok \in BOOLEAN : ToolComplete(1, i, ok)

SpecTerm == Init /\ [][NextTerm]_vars /\ WF_vars(NextTerm)

\* the two requests of the isolation specification and their bodies
IsoReq == {1, 2}

IsoConversation(t) ==
  IF t = 1
    THEN <<[sender |-> "user", text |-> "q1"]>>
    ELSE <<[sender |-> "user", text |-> "q1"],
           [sender |-> "bot", text |-> "r1"],
           [sender |-> "user", text |-> "q2"]>>

\* Two DeepSeek requests with tool batches that are served at the same
\* time; the second arrives when the first has initialised both clients
NextIso ==
  \/ \E t \in IsoReq :
       /\ InOrder(t, IsoReq)
       /\ t > 1 => mcpClientInstance.id # 0
       /\ Post(t, IsoConversation(t), "deepseek")
  \/ CreateDone(1, TRUE)
  \/ \E t \in IsoReq : Answer1(t, 1)
  \/ \E t \in IsoReq : Answer2(t)
  \/ \E t \in IsoReq, ok \in BOOLEAN : ToolComplete(t, 1, ok)

SpecIso == Init /\ [][NextIso]_vars

\* ------------------------------------------------------------------------
\* The file tools.  A path is a string, modelled as a sequence of characters.
Chars == {"/", ".", "d", "x"}

Filenames == UNION {[1..n -> Chars] : n \in 0..MaxLen}

\* dataDirectory: an absolute, normalized directory path ("/d")
dataDirectory == <<"/", "d">>

\* the segments of a path between its separators, empty ones left out
Segments(s) ==
  LET RECURSIVE F(_, _, _)
      F(r, cur, acc) ==
        IF r = <<>>
          THEN IF cur = <<>> THEN acc ELSE Append(acc, cur)
        ELSE IF Head(r) = "/"
          THEN F(Tail(r), <<>>, IF cur = <<>> THEN acc ELSE Append(acc, cur))
        ELSE F(Tail(r), Append(cur, Head(r)), acc)
  IN F(s, <<>>, <<>>)

\* "." is dropped, ".." removes the segment before it (none at the root)
Resolve(segs) ==
  LET RECURSIVE F(_, _)
      F(r, acc) ==
        IF r = <<>> THEN acc
        ELSE IF Head(r) = <<".">> THEN F(Tail(r), acc)
        ELSE IF Head(r) = <<".", ".">>
          THEN F(Tail(r), IF acc = <<>> THEN acc ELSE SubSeq(acc, 1, Len(acc) - 1))
        ELSE F(Tail(r), Append(acc, Head(r)))
  IN F(segs, <<>>)

\* path.normalize of an absolute POSIX path: resolved segments, each after
\* one separator; a trailing separator is kept
normalize(s) ==
  LET segs == Resolve(Segments(s))
      RECURSIVE J(_)
      J(r) == IF r = <<>> THEN <<>> ELSE <<"/">> \o Head(r) \o J(Tail(r))
  IN IF segs = <<>> THEN <<"/">>
     ELSE IF s[Len(s)] = "/" THEN J(segs) \o <<"/">>
     ELSE J(segs)

\* path.join(dataDirectory, filename)
join(dir, filename) ==
  IF filename = <<>> THEN normalize(dir) ELSE normalize(dir \o <<"/">> \o filename)

\* String.prototype.startsWith
startsWith(s, prefix) ==
  Len(prefix) <= Len(s) /\ SubSeq(s, 1, Len(prefix)) = prefix

isPathSafe(filePath) == startsWith(normalize(filePath), dataDirectory)

\* readFileTool.execute / writeFileTool.execute up to the first call of fs:
\* the path is joined and tested, then fs is called with it
FileExecute(call) ==
  LET filePath == join(dataDirectory, call.filename)
  IN IF ~isPathSafe(filePath)
       THEN [call EXCEPT !.state = "refused"]
       ELSE [call EXCEPT !.state = "touched", !.path = filePath]

\* a holder of the tools calls read_file or write_file with some filename
InitPath ==
  /\ mcpClient = [p \in Providers |-> 0]
  /\ createCalls = [p \in Providers |-> 0]
  /\ live = [p \in Providers |-> {}]
  /\ constructed = [p \in Providers |-> 0]
  /\ handlerOrder = <<>>
  /\ mcpClientInstance = NoInstance
  /\ exited = FALSE
  /\ env = [p \in Providers |-> TRUE]
  /\ customTools = [built |-> FALSE, deepseek |-> <<>>, qwen |-> <<>>, tools |-> <<>>]
  /\ toolCall \in [tool : {"read_file", "write_file"}, filename : Filenames,
                    state : {"called"}, path : {<<>>}]
  /\ task = [t \in Tasks |-> IdleTask(t)]

FileTool ==
  /\ toolCall.state = "called"
  /\ toolCall' = FileExecute(toolCall)
  /\ UNCHANGED <<mcpClient, createCalls, live, constructed, handlerOrder,
                 mcpClientInstance, exited, env, customTools, task>>

NextPath == FileTool

SpecPath == InitPath /\ [][NextPath]_vars

\* ------------------------------------------------------------------------
\* The gemini_thinking tool.  The thought parameter may be missing; when it
\* is given it is a string, modelled as a sequence of characters.
ThoughtTexts == UNION {[1..n -> {" ", "a"}] : n \in 0..2}

Thoughts ==
  [given : {TRUE}, text : ThoughtTexts] \cup {[given |-> FALSE, text |-> <<>>]}

ThinkingParams ==
  [thought : Thoughts, thoughtNumber : 1..2, totalThoughts : 2..3,
   nextThoughtNeeded : BOOLEAN]

\* String.prototype.trim
trim(s) ==
  LET RECURSIVE L(_)
      L(r) == IF r # <<>> /\ Head(r) = " " THEN L(Tail(r)) ELSE r
      RECURSIVE R(_)
      R(r) == IF r # <<>> /\ r[Len(r)] = " " THEN R(SubSeq(r, 1, Len(r) - 1)) ELSE r
  IN R(L(s))

NoThought ==
  [thought |-> <<>>, thoughtNumber |-> 0, totalThoughts |-> 0, nextThoughtNeeded |-> FALSE]

\* variant: the provided thought is returned without its surrounding blanks
GeminiExecuteTrimmed(call) ==
  LET params == call.params
  IN IF params.thought.given /\ params.thought.text # <<>> /\ trim(params.thought.text) # <<>>
       THEN [call EXCEPT !.state = "returned",
                         !.result = [thought |-> trim(params.thought.text),
                                     thoughtNumber |-> params.thoughtNumber,
                                     totalThoughts |-> params.totalThoughts,
                                     nextThoughtNeeded |-> params.nextThoughtNeeded]]
       ELSE [call EXCEPT !.state = "awaitServer", !.mcpInit = TRUE]

\* geminiThinkingTool.execute up to its first await: a provided thought is
\* returned as it is; otherwise executeThroughMCP runs initializeMCPClient
\* and calls the tool of the Gemini server
GeminiExecute(call) ==
  LET params == call.params
  IN IF params.thought.given /\ params.thought.text # <<>> /\ trim(params.thought.text) # <<>>
       THEN [call EXCEPT !.state = "returned",
                         !.result = [thought |-> params.thought.text,
                                     thoughtNumber |-> params.thoughtNumber,
                                     totalThoughts |-> params.totalThoughts,
                                     nextThoughtNeeded |-> params.nextThoughtNeeded]]
       ELSE [call EXCEPT !.state = "awaitServer", !.mcpInit = TRUE]

\* a holder of the tool object calls its execute with some parameters
InitThink ==
  /\ mcpClient = [p \in Providers |-> 0]
  /\ createCalls = [p \in Providers |-> 0]
  /\ live = [p \in Providers |-> {}]
  /\ constructed = [p \in Providers |-> 0]
  /\ handlerOrder = <<>>
  /\ mcpClientInstance = NoInstance
  /\ exited = FALSE
  /\ env = [p \in Providers |-> TRUE]
  /\ customTools = [built |-> FALSE, deepseek |-> <<>>, qwen |-> <<>>, tools |-> <<>>]
  /\ toolCall \in [tool : {"gemini_thinking"}, state : {"called"}, params : ThinkingParams,
                    result : {NoThought}, mcpInit : {FALSE}, serverCalls : {0}]
  /\ task = [t \in Tasks |-> IdleTask(t)]

GeminiTool ==
  /\ toolCall.state = "called"
  /\ toolCall' = GeminiExecute(toolCall)
  /\ UNCHANGED <<mcpClient, createCalls, live, constructed, handlerOrder,
                 mcpClientInstance, exited, env, customTools, task>>

\* executeThroughMCP settles: the client could not be constructed, the
\* server's tool failed, or it generated a thought
GeminiOutcomes == {"initFails", "serverFails", "ok"}

GeminiAnswer(outcome) ==
  /\ toolCall.state = "awaitServer"
  /\ toolCall' =
       [toolCall EXCEPT
          !.state = IF outcome = "ok" THEN "returned" ELSE "threw",
          !.serverCalls = IF outcome = "initFails" THEN @ ELSE @ + 1,
          !.result = IF outcome = "ok"
                       THEN [thought |-> <<"a">>,
                             thoughtNumber |-> toolCall.params.thoughtNumber,
                             totalThoughts |-> toolCall.params.totalThoughts,
                             nextThoughtNeeded |-> toolCall.params.nextThoughtNeeded]
                       ELSE @]
  /\ UNCHANGED <<mcpClient, createCalls, live, constructed, handlerOrder,
                 mcpClientInstance, exited, env, customTools, task>>

NextThink ==
  \/ GeminiTool
  \/ \E outcome \in GeminiOutcomes : GeminiAnswer(outcome)

SpecThink == InitThink /\ [][NextThink]_vars

\* The merge of the tool registry on every pair of provider tool sets
NextReg ==
  \E deepseekTools \in ToolSets("deepseek"), qwenTools \in ToolSets("qwen") :
    Tools(deepseekTools, qwenTools)

SpecReg == Init /\ [][NextReg]_vars

\* One request under every environment, the direct Qwen route included
NextEnv ==
  \/ \E msgs \in Conversations, model \in Models \cup {"qwen_direct"} : Post(1, msgs, model)
  \/ \E ok \in BOOLEAN : CreateDone(1, ok)
  \/ Answer1(1, 0)
  \/ \E kind \in FailureKinds : GenerateFails(1, kind)
  \/ \E outcome \in DirectOutcomes : DirectAnswer(1, outcome)

SpecEnv == InitEnv /\ [][NextEnv]_vars

\* one request with any body and any model selector, through every handler
NextPost ==
  \/ \E body \in Bodies : PostBody(1, body)
  \/ \E ok \in BOOLEAN : CreateDone(1, ok)
  \/ Answer1(1, 1)
  \/ Answer2(1)
  \/ \E kind \in FailureKinds : GenerateFails(1, kind)
  \/ \E ok \in BOOLEAN : ToolComplete(1, 1, ok)
  \/ \E outcome \in DirectOutcomes : DirectAnswer(1, outcome)
  \/ \E outcome \in DirectOutcomes : ClaudeAnswer(1, outcome)

SpecPost == InitEnv /\ [][NextPost]_vars

TypeOK ==
  /\ \A p \in Providers : mcpClient[p] \in 0..createCalls[p]
  /\ \A p \in Providers : constructed[p] <= createCalls[p]
  /\ \A p \in Providers : live[p] \subseteq 1..createCalls[p]
  /\ \A t \in Tasks : task[t].id = t
  /\ exited \in BOOLEAN

\* ========================================================================
\* Properties
\* ========================================================================
Calls(t) == task[t].result.tool_calls

Registered(t, i) == Calls(t)[i].name \in Registry(task[t].client)

Valid(t, i) == Parses(Calls(t)[i].args) /\ Registered(t, i)

ToolMessages(call) == SelectSeq(call.messages, LAMBDA m : m.role = "function")

Base(t) == Len(MessagesWithSystem(task[t].messages))

AllSettled(t) == \A k \in 1..Len(task[t].results) : task[t].results[k].state = "done"

\* C1: concurrent first calls of getMCPClient make one construction call per
\* provider, and every caller receives the same MCPClient instance.
C1_SingleFlight ==
  /\ \A p \in Providers : createCalls[p] <= 1
  /\ \A t, u \in Req :
       (task[t].client.id # 0 /\ task[u].client.id # 0) => task[t].client.id = task[u].client.id

\* C2: when the first response carries N >= 1 valid tool calls, N executions
\* have been started, and the follow-up call carries N tool-result messages.
C2_ExactlyN ==
  \A t \in Req :
    (Len(Calls(t)) >= 1 /\ \A i \in 1..Len(Calls(t)) : Valid(t, i)) =>
      /\ task[t].started = 1..Len(Calls(t))
      /\ Len(task[t].sent) = 2 => Len(ToolMessages(task[t].sent[2])) = Len(Calls(t))

C2_Witness ==
  \E t \in Req :
    /\ Len(Calls(t)) = 2
    /\ \A i \in 1..2 : Valid(t, i)
    /\ task[t].threw # {}
    /\ Len(task[t].sent) = 2

\* C3: whatever the order in which the executions settle, the i-th tool
\* message of the follow-up call carries the result of the i-th tool call.
C3_CallOrder ==
  \A t \in Req :
    Len(task[t].sent) = 2 =>
      LET msgs == task[t].sent[2].messages
      IN /\ Len(msgs) = Base(t) + Len(Calls(t))
         /\ \A i \in 1..Len(Calls(t)) :
              /\ msgs[Base(t) + i].role = "function"
              /\ msgs[Base(t) + i].name = Calls(t)[i].name
              /\ msgs[Base(t) + i].content[3] = Calls(t)[i].args
              /\ msgs[Base(t) + i].content[1] =
                   IF Registered(t, i) /\ i \notin task[t].threw THEN "out" ELSE "error"

C3_Witness ==
  \E t \in Req :
    /\ Len(task[t].sent) = 2
    /\ task[t].order = <<2, 1>>
    /\ Calls(t)[1] # Calls(t)[2]

\* C4: a call that names an unregistered tool gets an error result; the valid
\* calls of the batch are still executed and keep their own results; the
\* batch is not aborted by it and the follow-up call is issued.
C4_UnknownTool ==
  \A t \in Req : \A i \in 1..Len(Calls(t)) :
    (Parses(Calls(t)[i].args) /\ ~Registered(t, i)) =>
      /\ task[t].results[i].state = "done" /\ task[t].results[i].kind = "error"
      /\ \A j \in 1..Len(Calls(t)) :
           Valid(t, j) =>
             /\ j \in task[t].started
             /\ task[t].results[j].state = "done" =>
                  (task[t].results[j].kind = "out" <=> j \notin task[t].threw)
      /\ task[t].failCause = "ToolCallRejected" =>
           \E k \in 1..Len(Calls(t)) : ~Parses(Calls(t)[k].args)
      /\ ((\A k \in 1..Len(Calls(t)) : Parses(Calls(t)[k].args)) /\ AllSettled(t)) =>
           Len(task[t].sent) = 2

C4_Witness ==
  \E t \in Req : \E i, j \in 1..Len(Calls(t)) :
    /\ Parses(Calls(t)[i].args) /\ ~Registered(t, i)
    /\ Valid(t, j) /\ task[t].results[j].kind = "out"
    /\ Len(task[t].sent) = 2
    /\ task[t].pc = "done"

\* C5: when an executor throws, that call gets an error result, the results
\* of the other calls are their own, and the run goes on to the follow-up.
C5_ExecutorThrows ==
  \A t \in Req : \A i \in task[t].threw :
    /\ task[t].results[i].state = "done" /\ task[t].results[i].kind = "error"
    /\ \A j \in task[t].started \ task[t].threw :
         task[t].results[j].state = "done" => task[t].results[j].kind = "out"
    /\ task[t].failCause # "ToolCallRejected"
    /\ AllSettled(t) => Len(task[t].sent) = 2

C5_Witness ==
  \E t \in Req : \E i, j \in 1..Len(Calls(t)) :
    /\ i \in task[t].threw
    /\ j \in task[t].started \ task[t].threw
    /\ task[t].results[j].kind = "out"
    /\ task[t].pc = "done"

\* C6: a call whose argument string does not parse gets an error result and
\* the batch is not aborted.
C6_MalformedRecovered ==
  \A t \in Req : \A i \in 1..Len(Calls(t)) :
    ~Parses(Calls(t)[i].args) =>
      /\ task[t].results[i].state = "done" /\ task[t].results[i].kind = "error"
      /\ task[t].failCause # "ToolCallRejected"

\* C7: a DeepSeek run whose first response carries no tool call is DONE after
\* one provider call and answers with the text of that response.
C7_ZeroCalls ==
  \A t \in Req :
    (task[t].model = "deepseek" /\ task[t].result.type # "none" /\ Len(Calls(t)) = 0) =>
      /\ task[t].pc = "done"
      /\ Len(task[t].sent) = 1
      /\ task[t].response = [status |-> 200, kind |-> "text", text |-> task[t].result.content]

\* C8: a shutdown operation that starts after an earlier one has returned
\* raises no error and makes no construction call.
C8_ShutdownIdempotent ==
  \A t \in Shut :
    task[t].afterShutdown => (task[t].creates = 0 /\ task[t].outcome # "threw")

\* C9: at most one client is ever constructed for a provider.
C9_OneClientPerProvider ==
  \A p \in Providers : constructed[p] <= 1

\* C10: in a shutdown operation a failed close of one provider's client does
\* not keep the close of the other providers from being attempted, and the
\* operation returns without an error.
C10_CloseIsolated ==
  \A t \in Shut :
    /\ (Terminal(t) /\ task[t].kind \in {"closeMCPClient", "close"}) => task[t].outcome = "returned"
    /\ task[t].outcome = "returned" =>
         \A p \in task[t].closeFailed : \A q \in Providers \ {p} :
           (task[t].kind = "close" \/ task[t].client[q]) => q \in task[t].attempted

C10_Witness ==
  \E t \in Shut :
    /\ task[t].kind = "closeMCPClient"
    /\ task[t].outcome = "returned"
    /\ task[t].closeFailed = {"deepseek"}
    /\ task[t].closing["qwen"] # 0
    /\ mcpClient["qwen"] = 0

C12_NoCredentialUnavailable ==
  \A t \in Req :
    (task[t].kind = "POST" /\ task[t].model \in Providers /\ ~env[task[t].model]
       /\ task[t].client.id # 0) =>
      /\ task[t].failCause = "ProviderUnavailable"
      /\ task[t].sent = <<>>

\* C13: a dispatch to a provider whose slot is null fails at once as
\* ProviderUnavailable: no tool-registry lookup, no provider call and no tool
\* execution was made for the request.
C13_FailFast ==
  \A t \in Req :
    /\ (task[t].kind = "POST" /\ task[t].model \in Providers
           /\ task[t].client.id # 0 /\ ~task[t].client[task[t].model]) =>
         (task[t].pc = "failed" /\ task[t].failCause = "ProviderUnavailable")
    /\ task[t].failCause = "ProviderUnavailable" =>
         /\ task[t].lookups = 0
         /\ task[t].sent = <<>>
         /\ task[t].started = {} /\ task[t].results = <<>>
         /\ task[t].response.status = 500

C13_Witness ==
  \E t \in Req :
    /\ task[t].failCause = "ProviderUnavailable"
    /\ task[t].client.id # 0 /\ task[t].client.id # t
    /\ task[t].model = "qwen" /\ task[t].client["deepseek"]

\* C14: the follow-up provider call is issued only when every tool execution
\* of the batch has settled; while one is outstanding the run has made the
\* initial call only.
C14_FanInBeforeFollowUp ==
  \A t \in Req :
    /\ Len(task[t].sent) = 2 =>
         (Len(task[t].results) = Len(Calls(t)) /\ AllSettled(t))
    /\ (\E k \in 1..Len(task[t].results) : task[t].results[k].state = "pending") =>
         (task[t].pc \in {"tools", "failed"} /\ Len(task[t].sent) = 1)

C14_Witness ==
  \E t \in Req :
    /\ Len(task[t].sent) = 2
    /\ task[t].started = {1, 2}
    /\ Len(task[t].order) = 2

\* C15: a run issues at most two provider calls; when the second response
\* has arrived the run is over, the tool calls that response carries are not
\* executed, and the answer is the text of the second response.
C15_TwoCalls ==
  \A t \in Req :
    /\ Len(task[t].sent) <= 2
    /\ (Len(task[t].sent) = 2 /\ task[t].final.type # "none") =>
         /\ task[t].pc \in {"done", "failed"}
         /\ Len(task[t].results) = Len(Calls(t))
         /\ task[t].started \subseteq 1..Len(Calls(t))
         /\ task[t].response = [status |-> 200, kind |-> "text", text |-> task[t].final.content]

\* C16: the follow-up call goes to the provider of the initial call, which
\* carried the tool definitions, and itself carries neither tool definitions
\* nor a tool choice.
C16_FollowUpWithoutTools ==
  \A t \in Req :
    /\ \A k \in 1..Len(task[t].sent) : task[t].sent[k].provider = task[t].model
    /\ Len(task[t].sent) >= 1 =>
         (task[t].sent[1].tools /\ task[t].sent[1].tool_choice = "auto")
    /\ Len(task[t].sent) >= 2 =>
         (~task[t].sent[2].tools /\ task[t].sent[2].tool_choice = "unset")

C16_Witness ==
  \E t \in Req :
    /\ Len(task[t].sent) = 2
    /\ task[t].model = "deepseek"
    /\ Len(ToolMessages(task[t].sent[2])) = 2
    /\ task[t].pc = "done"

\* C17: a failed provider call ends the run as FAILED, and the answer the
\* caller receives tells the kind of the failure: two runs that failed with
\* different kinds are answered differently.
C17_TypedFailure ==
  \A t \in Req :
    /\ task[t].failCause \in FailureKinds => task[t].pc = "failed"
    /\ \A u \in Req :
         (task[t].failCause \in FailureKinds /\ task[u].failCause \in FailureKinds
            /\ task[t].failCause # task[u].failCause) =>
           task[t].response # task[u].response

\* C18: the reply field of an answer holds the text of a provider response
\* and nothing else: never the dump of a response object, never an error
\* message; a run in which a provider call failed is answered as an error.
C18_NoErrorAsReply ==
  \A t \in Req :
    /\ task[t].response.kind \notin {"json", "errtext"}
    /\ task[t].failCause # "" => task[t].response.kind = "error"

\* C19: once a provider call of a run has failed, the run is FAILED and
\* issues no further provider call; a run never makes more than one call per
\* phase.
C19_SingleAttempt ==
  \A t \in Req :
    /\ task[t].failCause \in FailureKinds =>
         /\ task[t].pc = "failed"
         /\ Len(task[t].sent) = (IF task[t].result.type = "none" THEN 1 ELSE 2)
    /\ Len(task[t].sent) <= (IF task[t].result.type = "none" THEN 1 ELSE 2)

C19_Witness ==
  \E t \in Req :
    /\ task[t].failCause \in FailureKinds
    /\ Len(task[t].sent) = 2
    /\ task[t].result.type # "none"

\* C20: when a provider call never returns, the run eventually is FAILED
\* with a Timeout failure.
C20_DeadlineExpires ==
  \A t \in Req :
    (task[t].pc = "hung") ~> (task[t].pc = "failed" /\ task[t].failCause = "Timeout")

\* C21: when one execution of a batch never completes, the run still
\* eventually issues the follow-up call, the hung call having got an error
\* result.
C21_HungToolExpires ==
  \A t \in Req :
    (\E i \in 1..Len(task[t].results) : task[t].results[i].state = "hung")
      ~> (Len(task[t].sent) = 2)

Names(tools) == {tools[i].name : i \in 1..Len(tools)}

C24_ToolRole ==
  \A t \in Req :
    Len(task[t].sent) = 2 =>
      LET msgs == task[t].sent[2].messages
      IN /\ Len(msgs) = Base(t) + Len(Calls(t))
         /\ \A i \in 1..Len(Calls(t)) :
              /\ msgs[Base(t) + i].role = "tool"
              /\ msgs[Base(t) + i].name = Calls(t)[i].name

\* C25: the messages of the initial call are the system preamble and then
\* the caller's messages in their order; the messages of the follow-up call
\* are those of the initial call, unchanged, followed by the tool messages
\* and nothing else.
C25_OrderPreserved ==
  \A t \in Req :
    /\ Len(task[t].sent) >= 1 =>
         LET first == task[t].sent[1].messages
         IN /\ Len(first) = 1 + Len(task[t].messages)
            /\ first[1] = SystemMessage
            /\ \A i \in 1..Len(task[t].messages) :
                 first[i + 1] = FormatMessage(task[t].messages[i])
    /\ Len(task[t].sent) = 2 =>
         LET first == task[t].sent[1].messages
             second == task[t].sent[2].messages
         IN /\ Len(second) = Len(first) + Len(task[t].results)
            /\ SubSeq(second, 1, Len(first)) = first
            /\ \A j \in (Len(first) + 1)..Len(second) : second[j].role = "function"

C25_Witness ==
  \E t \in Req :
    /\ Len(task[t].sent) = 2
    /\ Len(task[t].messages) = 3
    /\ Len(task[t].results) = 2
    /\ task[t].pc = "done"

\* C26: when the process has ended on a termination signal, no provider
\* client that was constructed is still open.
C26_ClosedBeforeExit ==
  exited => \A p \in Providers : live[p] = {}

\* C27: the provider calls and the answer of a request are made of that
\* request's own conversation, its own tool calls and its own tool results,
\* whatever other requests are being served at the same time.
C27_RequestScoped ==
  \A t \in Req :
    /\ \A k \in 1..Len(task[t].sent) :
         SubSeq(task[t].sent[k].messages, 1, Base(t)) = MessagesWithSystem(task[t].messages)
    /\ Len(task[t].sent) >= 1 => Len(task[t].sent[1].messages) = Base(t)
    /\ Len(task[t].sent) = 2 =>
         LET msgs == task[t].sent[2].messages
         IN /\ Len(msgs) = Base(t) + Len(Calls(t))
            /\ \A i \in 1..Len(Calls(t)) :
                 /\ msgs[Base(t) + i].name = Calls(t)[i].name
                 /\ msgs[Base(t) + i].content =
                      <<task[t].results[i].kind, Calls(t)[i].name, Calls(t)[i].args>>
    /\ (task[t].pc = "done" /\ task[t].response.kind = "text") =>
         task[t].response.text =
           (IF Len(task[t].sent) = 2 THEN task[t].final.content ELSE task[t].result.content)

C27_Witness ==
  /\ Len(task[1].sent) = 2
  /\ task[2].pc = "tools"
  /\ Calls(1)[1] # Calls(2)[1]
  /\ task[1].messages # task[2].messages

\* the state of the orchestrator run of a request, read off the handler's
\* position (MODEL_RESPONDED lies inside a turn and is never observed)
RunState(rec) ==
  IF rec.sent = <<>> THEN "NONE"
  ELSE IF rec.pc = "failed" THEN "FAILED"
  ELSE IF rec.pc = "done" THEN "DONE"
  ELSE IF rec.pc = "tools" THEN "EXECUTING_TOOLS"
  ELSE IF Len(rec.sent) = 1 THEN "AWAIT_INITIAL"
  ELSE "AWAIT_FOLLOWUP"

AllowedTransitions ==
  {<<"NONE", "AWAIT_INITIAL">>,
   <<"AWAIT_INITIAL", "DONE">>, <<"AWAIT_INITIAL", "EXECUTING_TOOLS">>,
   <<"AWAIT_INITIAL", "AWAIT_FOLLOWUP">>, <<"AWAIT_INITIAL", "FAILED">>,
   <<"EXECUTING_TOOLS", "AWAIT_FOLLOWUP">>,
   <<"AWAIT_FOLLOWUP", "DONE">>, <<"AWAIT_FOLLOWUP", "FAILED">>}

\* C28: a run moves along AWAIT_INITIAL -> MODEL_RESPONDED -> {DONE |
\* EXECUTING_TOOLS} -> AWAIT_FOLLOWUP -> DONE only; it becomes FAILED only
\* out of a provider call, that is before any tool batch has begun or after
\* the follow-up call was issued; no tool executes before the first response
\* has arrived; a run that is DONE or FAILED issues no provider call and
\* starts no tool execution.
C28_Transitions ==
  [][\A t \in Req :
       LET a == RunState(task[t])
           b == RunState(task'[t])
       IN /\ a # b => <<a, b>> \in AllowedTransitions
          /\ (a # b /\ b = "FAILED") =>
               (task'[t].results = <<>> \/ Len(task'[t].sent) = 2)
          /\ task'[t].started # {} => task'[t].result.type # "none"
          /\ a \in {"DONE", "FAILED"} =>
               /\ task'[t].sent = task[t].sent
               /\ task'[t].started = task[t].started
               /\ task'[t].results = task[t].results]_vars

\* C29: when the backend's response to the initial call carries at least one
\* tool call, the run enters the tool-execution phase with one batch entry per
\* call, in the DeepSeek and in the Qwen handler alike.
C29_ToolCallsReachExecution ==
  \A t \in Tasks :
    Len(task[t].backend.tool_calls) > 0 =>
      /\ task[t].result.tool_calls = task[t].backend.tool_calls
      /\ Len(task[t].results) = Len(task[t].backend.tool_calls)

\* C30: the tool schemas and the tool choice "auto" that the handler passes in
\* the initial call are part of the request the adapter sends to the backend.
C30_ToolsForwarded ==
  \A t \in Tasks :
    Len(task[t].sent) >= 1 =>
      LET call == task[t].sent[1]
      IN /\ call.tools /\ call.tool_choice = "auto"
         /\ "tools" \in DOMAIN call.request
         /\ call.request.tools = call.tools
         /\ "tool_choice" \in DOMAIN call.request
         /\ call.request.tool_choice = "auto"

\* C31: the initial provider call carries tool choice "auto" and one schema
\* entry for every tool of the registry, each under that tool's registered name.
C31_FullSchemaList ==
  \A t \in Tasks :
    Len(task[t].sent) >= 1 =>
      LET call == task[t].sent[1]
      IN /\ call.tool_choice = "auto"
         /\ Len(call.toolParams) = Cardinality(Registry(task[t].client))
         /\ {call.toolParams[j].name : j \in 1..Len(call.toolParams)}
              = Registry(task[t].client)

\* C32: every transport client that has been constructed and not closed is
\* the one held in its module's mcpClient variable.
C32_NoOrphanedClient ==
  \A p \in Providers : \A id \in live[p] : mcpClient[p] = id

\* C33: the POST handler never ends without a response and never answers
\* twice: a request that has ended carries one response of status 200, 400,
\* 500 or the upstream status, a request that has not ended carries none, and
\* a response once given is never replaced.
C33_OneResponse ==
  [][\A t \in Req :
       /\ task'[t].pc \in {"done", "failed"} =>
            task'[t].response.status \in {200, 400, 500, 401}
       /\ task'[t].pc \notin {"done", "failed"} => task'[t].response = NoResponse
       /\ task[t].response # NoResponse => task'[t].response = task[t].response]_vars

\* a Claude request whose upstream call failed: the handler rethrows, the
\* catch of POST answers 500
C33_Witness ==
  \E t \in Req :
    /\ task[t].kind = "POST" /\ task[t].model = "claude"
    /\ task[t].pc = "failed" /\ task[t].failCause = "ProviderError"
    /\ task[t].response.status = 500

InvalidMessages(rec) ==
  \/ rec.body \in {"missing", "notArray"}
  \/ rec.body = "array" /\ rec.messages = <<>>

\* C34: a request whose messages field is missing, not an array or empty is
\* answered 400 in the step that receives it; that step leaves the shared
\* client and the provider clients as they were, and the request makes no
\* construction call, no registry lookup, no provider call and starts no tool.
C34_InvalidMessages400 ==
  [][\A t \in Req :
       InvalidMessages(task'[t]) =>
         /\ task'[t].pc = "done"
         /\ task'[t].response = [status |-> 400, kind |-> "error",
                                 text |-> "Invalid messages format"]
         /\ task'[t].client = NoInstance
         /\ task'[t].creates = 0 /\ task'[t].lookups = 0
         /\ task'[t].sent = <<>> /\ task'[t].started = {}
         /\ task[t].pc = "idle" =>
              UNCHANGED <<mcpClient, createCalls, live, constructed, handlerOrder,
                          mcpClientInstance, customTools, exited, env>>]_vars

C34_Witness ==
  \E t \in Req :
    /\ task[t].body = "notArray" /\ task[t].model = "deepseek"
    /\ task[t].response.status = 400

\* C35: closeQwenClient and closeDeepSeekClient never throw.  Called while
\* the module holds no client they make no close call; a close call is made
\* on the held client; when it succeeds the reference is cleared; when it
\* fails the operation goes on without an error and the reference still
\* holds the client the call was made on.
C35_CloseNeverThrows ==
  [][\A t \in Shut : \A p \in Providers :
       /\ task'[t].kind \in {"closeMCPClient", "close"} => task'[t].outcome # "threw"
       /\ (p \in task[t].inflight /\ p \notin task'[t].inflight) =>
            IF p \in task'[t].closeFailed
              THEN mcpClient'[p] = task[t].closing[p] /\ task[t].closing[p] # 0
              ELSE mcpClient'[p] = 0
       /\ (p \notin task[t].inflight /\ p \in task'[t].inflight) =>
            mcpClient'[p] # 0 /\ task'[t].closing[p] = mcpClient'[p]
       /\ (p \notin task[t].attempted /\ p \in task'[t].attempted /\ mcpClient'[p] = 0) =>
            /\ p \notin task'[t].inflight
            /\ task'[t].closing[p] = 0]_vars

\* C36: when every provider call and every tool executor eventually returns
\* or fails, a request that has been received eventually reaches DONE or
\* FAILED and carries its response.
C36_RunTerminates ==
  \A t \in Req :
    (task[t].pc # "idle") ~>
      (task[t].pc \in {"done", "failed"} /\ task[t].response # NoResponse)

\* a run that went through a batch of two tool executions, one of which
\* failed, and the follow-up call
C36_Witness ==
  \E t \in Req :
    /\ task[t].pc = "done" /\ task[t].response.status = 200
    /\ Len(task[t].results) = 2 /\ task[t].threw # {}
    /\ Len(task[t].sent) = 2

\* is the file named by path the directory dir or a file below it
Inside(path, dir) ==
  LET ps == Resolve(Segments(path))
      ds == Resolve(Segments(dir))
  IN Len(ds) <= Len(ps) /\ SubSeq(ps, 1, Len(ds)) = ds

\* C37: read_file and write_file call the file system only with a path
\* inside the data directory; every other filename is refused.
C37_InsideDataDirectory ==
  toolCall.state = "touched" => Inside(toolCall.path, dataDirectory)

\* C38: gemini_thinking executed with a non-blank thought returns that
\* thought with the given thoughtNumber, totalThoughts and nextThoughtNeeded,
\* all unchanged, without initialising the MCP client and without a call to
\* the Gemini server.
C38_ProvidedThought ==
  (/\ toolCall.tool = "gemini_thinking"
   /\ toolCall.state # "called"
   /\ toolCall.params.thought.given
   /\ \E k \in 1..Len(toolCall.params.thought.text) : toolCall.params.thought.text[k] # " ") =>
     /\ toolCall.state = "returned"
     /\ toolCall.result = [thought |-> toolCall.params.thought.text,
                           thoughtNumber |-> toolCall.params.thoughtNumber,
                           totalThoughts |-> toolCall.params.totalThoughts,
                           nextThoughtNeeded |-> toolCall.params.nextThoughtNeeded]
     /\ ~toolCall.mcpInit
     /\ toolCall.serverCalls = 0

\* a thought with a leading blank came back as it was given
C38_Witness ==
  /\ toolCall.tool = "gemini_thinking"
  /\ toolCall.state = "returned"
  /\ toolCall.params.thought = [given |-> TRUE, text |-> <<" ", "a">>]
  /\ toolCall.result.thought = <<" ", "a">>
  /\ toolCall.params.thoughtNumber = 2

====
